---- MODULE Spec2Model ----
(***************************************************************************)
(* Model of the course search tool: the scraper that writes the catalog    *)
(* file (scrapper.py) and the search engine and Streamlit page that read   *)
(* it (tool.py).                                                           *)
(*                                                                         *)
(* Conventions.  Python strings are TLA+ strings.  An optional argument    *)
(* (None or a value) is a sequence of length at most one: <<>> is None.    *)
(* Sequences are 1-based here and 0-based in the source.  A float score    *)
(* is kept in fixed point, in units of 1/ScoreScale.                       *)
(***************************************************************************)
EXTENDS Integers, Sequences, FiniteSets, TLC

VARIABLES catalog_file, engine, pc, app, out, last

vars == <<catalog_file, engine, pc, app, out, last>>

(***************************************************************************)
(* Bounds of the model.                                                    *)
(***************************************************************************)
MaxCourses == 2
MaxTopK == 2

(***************************************************************************)
(* Strings.                                                                *)
(***************************************************************************)
None == <<>>

Some(s) == <<s>>

Min(a, b) == IF a <= b THEN a ELSE b

UpperCase == "ABCDEFGHIJKLMNOPQRSTUVWXYZ"

LowerCase == "abcdefghijklmnopqrstuvwxyz"

\* str.lower() on one character
LowerChar(c) ==
    IF \E i \in 1..Len(UpperCase) : SubSeq(UpperCase, i, i) = c
    THEN LET i == CHOOSE j \in 1..Len(UpperCase) : SubSeq(UpperCase, j, j) = c
         IN SubSeq(LowerCase, i, i)
    ELSE c

RECURSIVE Lower(_)
\* str.lower()
Lower(s) ==
    IF s = "" THEN ""
    ELSE LowerChar(SubSeq(s, 1, 1)) \o Lower(SubSeq(s, 2, Len(s)))

RECURSIVE Strip(_)
\* str.strip(), for the blank the model's strings use
Strip(s) ==
    IF s = "" THEN ""
    ELSE IF SubSeq(s, 1, 1) = " " THEN Strip(SubSeq(s, 2, Len(s)))
    ELSE IF SubSeq(s, Len(s), Len(s)) = " " THEN Strip(SubSeq(s, 1, Len(s) - 1))
    ELSE s

\* the `in` operator on strings: needle is a substring of hay
Contains(hay, needle) ==
    \E i \in 1..(Len(hay) - Len(needle) + 1) :
        SubSeq(hay, i, i + Len(needle) - 1) = needle

\* truth value of an optional string: None and "" are false
Truthy(opt) == opt # None /\ opt[1] # ""

(***************************************************************************)
(* scrapper.py                                                             *)
(***************************************************************************)
Levels == <<"Beginner", "Intermediate", "Advanced">>

\* AnalyticsVidhyaScraper._extract_level
ExtractLevel(description) ==
    LET description_lower == Lower(description)
        hits == {i \in 1..Len(Levels) : Contains(description_lower, Lower(Levels[i]))}
    IN IF hits = {} THEN "All Levels"
       ELSE Levels[CHOOSE i \in hits : \A j \in hits : i <= j]

\* dict.get(key, default) on a record
Get(rec, key, default) == IF key \in DOMAIN rec THEN rec[key] ELSE default

\* the dict built for one course in _process_courses
ProcessCourse(course) ==
    [title |-> Strip(Get(course, "name", "")),
     description |-> Get(course, "description", ""),
     enrollment_count |-> Get(course, "enrollment_count", 0),
     category |-> Get(Get(course, "category", <<>>), "name", ""),
     level |-> ExtractLevel(Get(course, "description", ""))]

\* AnalyticsVidhyaScraper._process_courses
ProcessCourses(courses_data) ==
    [i \in 1..Len(courses_data) |-> ProcessCourse(courses_data[i])]

\* what the courses API can answer with: the raw course objects
ApiCourses ==
    {[name |-> " Intro to Python ", description |-> "Python for the beginner",
      enrollment_count |-> 500, category |-> [name |-> "Programming"]],
     [name |-> "Deep Learning", description |-> "ADVANCED networks",
      enrollment_count |-> 50, category |-> [name |-> "ML"]],
     [name |-> "Data Analysis", description |-> "pandas in practice",
      category |-> [name |-> "programming"]]}

\* AnalyticsVidhyaScraper.fetch_courses: a failed request gives [], an answer
\* is processed
FetchCourses(request_ok, courses_data) ==
    IF request_ok THEN ProcessCourses(courses_data) ELSE <<>>

\* the file after scrapper.main: written only when courses were found
ScraperMainFile(file, courses) ==
    IF courses # <<>> THEN [exists |-> TRUE, data |-> courses] ELSE file

(***************************************************************************)
(* The catalog file av_courses.json.  Besides what the scraper writes, the *)
(* file can hold any JSON array, so also an object without the fields the  *)
(* engine reads.                                                           *)
(***************************************************************************)
ScrapedCourses == {ProcessCourse(c) : c \in ApiCourses}

JsonObjects == ScrapedCourses \cup {[title |-> "Untitled", description |-> "draft"]}

SeqsUpTo(S, n) == UNION {[1..k -> S] : k \in 0..n}

CatalogFiles ==
    {[exists |-> FALSE, data |-> <<>>]}
    \cup {[exists |-> TRUE, data |-> d] : d \in SeqsUpTo(JsonObjects, MaxCourses)}

(***************************************************************************)
(* The sentence-transformers model and torch, as far as the engine uses    *)
(* them.  The encoder is a deterministic map from a text to a vector of a  *)
(* fixed dimension; which map depends on the model name.                   *)
(***************************************************************************)
DefaultModel == "sentence-transformers/all-MiniLM-L6-v2"

ModelNames == {DefaultModel, "sentence-transformers/all-mpnet-base-v2"}

EmbeddingTable == << <<3, 4>>, <<4, 3>>, <<0, 5>>, <<0, 0>>, <<5, 0>> >>

ModelSeed(model) == IF model = DefaultModel THEN 0 ELSE 3

\* SentenceTransformer.encode on one text
Encode(model, text) ==
    EmbeddingTable[((Len(text) + ModelSeed(model)) % Len(EmbeddingTable)) + 1]

\* SentenceTransformer.encode on a list of texts: one vector per text, in order
EncodeBatch(model, texts) == [i \in 1..Len(texts) |-> Encode(model, texts[i])]

ScoreScale == 100

Dot(a, b) == a[1] * b[1] + a[2] * b[2]

\* the euclidean norm, exact on the vectors of EmbeddingTable
Norm(a) == CHOOSE r \in 0..Dot(a, a) : r * r <= Dot(a, a) /\ (r + 1) * (r + 1) > Dot(a, a)

\* torch clamps a norm from below by eps > 0: a zero norm never divides
ClampNorm(n) == IF n = 0 THEN 1 ELSE n

\* torch.nn.functional.cosine_similarity of the query with every row
CosineSimilarity(query_embedding, embeddings) ==
    [i \in 1..Len(embeddings) |->
        (Dot(query_embedding, embeddings[i]) * ScoreScale)
            \div (ClampNorm(Norm(query_embedding)) * ClampNorm(Norm(embeddings[i])))]

Injective(f) == \A i, j \in DOMAIN f : i # j => f[i] # f[j]

\* a selection of k indices that is not ordered by score
TopKUnsorted(scores, k) == {idx \in [1..k -> 1..Len(scores)] : Injective(idx)}

\* torch.topk(scores, k), sorted: every index sequence it may return.  The
\* values come back in descending order; which of several equal elements is
\* taken, and in which order they come, is not specified.
TopK(scores, k) ==
    {idx \in [1..k -> 1..Len(scores)] :
        /\ Injective(idx)
        /\ \A i \in 1..(k - 1) : scores[idx[i]] >= scores[idx[i + 1]]
        /\ \A j \in 1..Len(scores) :
              (\A i \in 1..k : idx[i] # j) =>
                  \A i \in 1..k : scores[idx[i]] >= scores[j]}

\* torch.topk raises when k is not in 0..n
TopKInRange(scores, k) == 0 <= k /\ k <= Len(scores)

(***************************************************************************)
(* tool.py: CourseSearchEngine                                             *)
(***************************************************************************)
\* CourseSearchEngine.load_courses
LoadCourses(file) ==
    IF file.exists THEN [value |-> file.data, st_error |-> FALSE]
    ELSE [value |-> <<>>, st_error |-> TRUE]

TextFields == {"title", "description", "category"}

CourseTextNoCategory(course) == course.title \o " " \o course.description

\* the f-string of compute_embeddings
CourseText(course) ==
    course.title \o " " \o course.description \o " " \o course.category

\* CourseSearchEngine.compute_embeddings: a KeyError when a course lacks one
\* of the three fields, else the batch encoding stored in course_embeddings
ComputeEmbeddings(self) ==
    IF \A i \in 1..Len(self.courses) : TextFields \subseteq DOMAIN self.courses[i]
    THEN [raised |-> FALSE,
          self |-> [self EXCEPT !.course_embeddings =
                       Some(EncodeBatch(self.model,
                           [i \in 1..Len(self.courses) |-> CourseText(self.courses[i])]))]]
    ELSE [raised |-> TRUE, self |-> self]

NoEngine == [status |-> "absent", model |-> "", courses |-> <<>>, course_embeddings |-> None]

\* CourseSearchEngine.__init__: an unknown model name raises in
\* SentenceTransformer; an exception leaves no engine to the caller
Construct(model_name, file) ==
    IF model_name \notin ModelNames
    THEN [raised |-> TRUE, st_error |-> FALSE, self |-> [NoEngine EXCEPT !.status = "failed"]]
    ELSE LET loaded == LoadCourses(file)
             s0 == [status |-> "ready", model |-> model_name,
                    courses |-> loaded.value, course_embeddings |-> None]
         IN IF loaded.value # <<>>
            THEN LET c == ComputeEmbeddings(s0)
                 IN [raised |-> c.raised, st_error |-> loaded.st_error,
                     self |-> IF c.raised THEN [c.self EXCEPT !.status = "failed"] ELSE c.self]
            ELSE [raised |-> FALSE, st_error |-> loaded.st_error, self |-> s0]

TopKCountUncapped(top_k, n) == top_k

\* the k handed to torch.topk
TopKCount(top_k, n) == Min(top_k, n)

\* {**course, 'relevance_score': float(score)}: a new dict
ResultRecord(course, score) ==
    [f \in DOMAIN course \cup {"relevance_score"} |->
        IF f = "relevance_score" THEN score ELSE course[f]]

\* the score written into the stored course itself
SearchReturnInPlace(self, scores, idx) ==
    [value |-> [i \in 1..Len(idx) |-> ResultRecord(self.courses[idx[i]], scores[idx[i]])],
     self |-> [self EXCEPT !.courses =
                  [j \in 1..Len(self.courses) |->
                      IF \E i \in 1..Len(idx) : idx[i] = j
                      THEN ResultRecord(self.courses[j], scores[j])
                      ELSE self.courses[j]]]]

\* the loop of semantic_search that builds the result list, and the engine
\* after it
SearchReturn(self, scores, idx) ==
    [value |-> [i \in 1..Len(idx) |-> ResultRecord(self.courses[idx[i]], scores[idx[i]])],
     self |-> self]

Raised(error, encoded, self) ==
    [outcome |-> "raised", error |-> error, encoded |-> encoded, value |-> <<>>,
     indices |-> <<>>, scores |-> <<>>, self |-> self]

\* CourseSearchEngine.semantic_search: every way the call can end.  encoded
\* tells whether the query was encoded before the call ended.
SemanticSearch(self, query, top_k) ==
    LET query_embedding == Encode(self.model, query)
    IN IF self.course_embeddings = None
       THEN {Raised("TypeError", TRUE, self)}
       ELSE LET cos_scores == CosineSimilarity(query_embedding, self.course_embeddings[1])
                k == TopKCount(top_k, Len(self.courses))
            IN IF ~TopKInRange(cos_scores, k)
               THEN {Raised("RuntimeError", TRUE, self)}
               ELSE {LET r == SearchReturn(self, cos_scores, idx)
                     IN [outcome |-> "returned", error |-> "", encoded |-> TRUE,
                         value |-> r.value, indices |-> idx, scores |-> cos_scores,
                         self |-> r.self] :
                         idx \in TopK(cos_scores, k)}

\* the test on selected_category
CategoryActive(selected_category) ==
    Truthy(selected_category) /\ selected_category[1] # "All Categories"

LevelActiveNoSentinel(selected_level) == Truthy(selected_level)

\* the test on selected_level
LevelActive(selected_level) ==
    Truthy(selected_level) /\ selected_level[1] # "All Levels"

CategoryMatchesCase(course, selected_category) ==
    course.category = selected_category[1]

CategoryMatches(course, selected_category) ==
    Lower(course.category) = Lower(selected_category[1])

LevelMatches(course, selected_level) ==
    Lower(course.level) = Lower(selected_level[1])

\* CourseSearchEngine.filter_courses: the list returned, and the caller's
\* list after the call
FilterCourses(results, selected_category, selected_level) ==
    LET copied == results
        by_category ==
            IF CategoryActive(selected_category)
            THEN SelectSeq(copied, LAMBDA course : CategoryMatches(course, selected_category))
            ELSE copied
        by_level ==
            IF LevelActive(selected_level)
            THEN SelectSeq(by_category, LAMBDA course : LevelMatches(course, selected_level))
            ELSE by_category
    IN [value |-> by_level, results |-> results]

(***************************************************************************)
(* tool.py: main, the Streamlit page.  One run of the script is one run of *)
(* main; Streamlit runs the script again on every interaction.             *)
(***************************************************************************)
CatalogEmptyNeverChecked(self) == FALSE

\* `not search_engine.courses`
CatalogEmpty(self) == self.courses = <<>>

\* the options of the two select boxes
CategoryOptions(self) ==
    {"All Categories"} \cup {self.courses[i].category : i \in 1..Len(self.courses)}

LevelOptions(self) ==
    {"All Levels"} \cup {self.courses[i].level : i \in 1..Len(self.courses)}

\* the range of the number input
TopKWidgetMin == 1

TopKWidgetMax == 20

TopKOptions == TopKWidgetMin..Min(TopKWidgetMax, MaxTopK)

FeaturedCount == 5

RECURSIVE SortedByEnrollment(_)
\* sorted(courses, key=enrollment_count, reverse=True): stable, so courses
\* with equal counts keep their order
SortedByEnrollment(courses) ==
    IF courses = <<>> THEN <<>>
    ELSE LET n == Len(courses)
             c == courses[n]
             front == SortedByEnrollment(SubSeq(courses, 1, n - 1))
             before == SelectSeq(front, LAMBDA d : d.enrollment_count >= c.enrollment_count)
             after == SelectSeq(front, LAMBDA d : d.enrollment_count < c.enrollment_count)
         IN before \o <<c>> \o after

FeaturedCourses(self) ==
    SubSeq(SortedByEnrollment(self.courses), 1, Min(FeaturedCount, Len(self.courses)))

\* what a user can type into the search box, and a caller can pass as query
Queries == {"", "  ", "python", "deep learning"}

\* what a caller can pass to semantic_search and filter_courses
TopKArgs == (0 - 1)..MaxTopK

CategoryArgs == {None, Some(""), Some("All Categories"), Some("PROGRAMMING")}

LevelArgs == {None, Some("All Levels"), Some("beginner")}

(***************************************************************************)
(* State.                                                                  *)
(*   catalog_file  av_courses.json                                         *)
(*   engine        the CourseSearchEngine of this process                  *)
(*   pc            where the process is                                    *)
(*   app           the locals of main, and the engine methods it called    *)
(*   out           the Streamlit messages emitted in this run              *)
(*   last          the most recent call of an engine method                *)
(***************************************************************************)
AppIdle ==
    [search_query |-> "", top_k |-> 0, selected_category |-> "", selected_level |-> "",
     results |-> <<>>, filtered_results |-> <<>>, featured_courses |-> <<>>, called |-> {}]

NoCall ==
    [op |-> "none", query |-> "", top_k |-> 0, results |-> <<>>, results_after |-> <<>>,
     selected_category |-> None, selected_level |-> None,
     outcome |-> "none", error |-> "", encoded |-> FALSE, value |-> <<>>,
     indices |-> <<>>, scores |-> <<>>]

SearchCall(query, top_k, o) ==
    [NoCall EXCEPT !.op = "semantic_search", !.query = query, !.top_k = top_k,
                   !.outcome = o.outcome, !.error = o.error, !.encoded = o.encoded,
                   !.value = o.value, !.indices = o.indices, !.scores = o.scores]

FilterCall(results, selected_category, selected_level, o) ==
    [NoCall EXCEPT !.op = "filter_courses", !.results = results,
                   !.results_after = o.results,
                   !.selected_category = selected_category,
                   !.selected_level = selected_level,
                   !.outcome = "returned", !.value = o.value]

StError(c) == IF c.st_error THEN {"error: course data not found"} ELSE {}

Init ==
    /\ catalog_file \in CatalogFiles
    /\ engine = NoEngine
    /\ pc = "start"
    /\ app = AppIdle
    /\ out = {}
    /\ last = NoCall

\* scrapper.main, run before the page is opened
ScraperMain ==
    /\ pc = "start"
    /\ \E request_ok \in BOOLEAN, courses_data \in SeqsUpTo(ApiCourses, MaxCourses) :
          catalog_file' = ScraperMainFile(catalog_file, FetchCourses(request_ok, courses_data))
    /\ UNCHANGED <<engine, pc, app, out, last>>

\* a program that uses the engine as a library constructs one
LibConstruct ==
    /\ pc = "start"
    /\ \E model_name \in ModelNames \cup {"no-such-model"} :
          LET c == Construct(model_name, catalog_file)
          IN /\ engine' = c.self
             /\ out' = out \cup StError(c)
             /\ pc' = IF c.raised THEN "crashed" ELSE "lib"
    /\ UNCHANGED <<catalog_file, app, last>>

\* the library user calls semantic_search
LibSemanticSearch ==
    /\ pc = "lib"
    /\ \E query \in Queries, top_k \in TopKArgs :
          \E o \in SemanticSearch(engine, query, top_k) :
             /\ engine' = o.self
             /\ last' = SearchCall(query, top_k, o)
    /\ UNCHANGED <<catalog_file, pc, app, out>>

\* the library user calls filter_courses on the list the search returned
LibFilterCourses ==
    /\ pc = "lib"
    /\ last.op = "semantic_search"
    /\ last.outcome = "returned"
    /\ \E selected_category \in CategoryArgs, selected_level \in LevelArgs :
          last' = FilterCall(last.value, selected_category, selected_level,
                             FilterCourses(last.value, selected_category, selected_level))
    /\ UNCHANGED <<catalog_file, engine, pc, app, out>>

\* main up to the sidebar: the engine is constructed with the default model;
\* an empty catalog ends the run with the warning
MainStart ==
    /\ pc = "start"
    /\ LET c == Construct(DefaultModel, catalog_file)
       IN /\ engine' = c.self
          /\ IF c.raised
             THEN /\ pc' = "crashed"
                  /\ out' = out \cup StError(c)
             ELSE IF CatalogEmpty(c.self)
             THEN /\ pc' = "app_done"
                  /\ out' = out \cup StError(c) \cup {"warning: run the scraper first"}
             ELSE /\ pc' = "app_ui"
                  /\ out' = out \cup StError(c)
    /\ UNCHANGED <<catalog_file, app, last>>

\* main with a search query: the widgets are read and semantic_search is called
MainSearch ==
    /\ pc = "app_ui"
    /\ \E search_query \in Queries \ {""}, top_k \in TopKOptions,
          selected_category \in CategoryOptions(engine),
          selected_level \in LevelOptions(engine) :
          \E o \in SemanticSearch(engine, search_query, top_k) :
             /\ engine' = o.self
             /\ last' = SearchCall(search_query, top_k, o)
             /\ app' = [app EXCEPT !.search_query = search_query, !.top_k = top_k,
                                   !.selected_category = selected_category,
                                   !.selected_level = selected_level,
                                   !.results = o.value,
                                   !.called = @ \cup {"semantic_search"}]
             /\ pc' = IF o.outcome = "raised" THEN "crashed" ELSE "app_searched"
    /\ UNCHANGED <<catalog_file, out>>

\* main after the search: the filters are applied and the outcome is shown
MainFilter ==
    /\ pc = "app_searched"
    /\ LET o == FilterCourses(app.results, Some(app.selected_category),
                              Some(app.selected_level))
       IN /\ last' = FilterCall(app.results, Some(app.selected_category),
                                Some(app.selected_level), o)
          /\ app' = [app EXCEPT !.results = o.results, !.filtered_results = o.value,
                                !.called = @ \cup {"filter_courses"}]
          /\ out' = out \cup (IF o.value # <<>> THEN {"found"} ELSE {"info: no courses found"})
    /\ pc' = "app_done"
    /\ UNCHANGED <<catalog_file, engine>>

\* main without a search query: the featured courses are shown
MainFeatured ==
    /\ pc = "app_ui"
    /\ app' = [app EXCEPT !.featured_courses = FeaturedCourses(engine)]
    /\ out' = out \cup {"featured"}
    /\ pc' = "app_done"
    /\ UNCHANGED <<catalog_file, engine, last>>

\* the process ends and the program is started again
Restart ==
    /\ pc \in {"app_done", "crashed", "lib"}
    /\ engine' = NoEngine
    /\ pc' = "start"
    /\ app' = AppIdle
    /\ out' = {}
    /\ last' = NoCall
    /\ UNCHANGED catalog_file

Next ==
    \/ ScraperMain
    \/ LibConstruct
    \/ LibSemanticSearch
    \/ LibFilterCourses
    \/ MainStart
    \/ MainSearch
    \/ MainFilter
    \/ MainFeatured
    \/ Restart

Spec == Init /\ [][Next]_vars

(***************************************************************************)
(* Properties.                                                             *)
(***************************************************************************)
\* a call of semantic_search has ended, with arguments the contract allows
ValidArgs == Strip(last.query) # "" /\ last.top_k > 0

SearchEnded == last.op = "semantic_search"

SearchReturned == SearchEnded /\ last.outcome = "returned"

FilterEnded == last.op = "filter_courses"

\* result is course with a relevance_score added and nothing else changed
IsSearchResultOf(result, course) ==
    /\ DOMAIN result = DOMAIN course \cup {"relevance_score"}
    /\ \A f \in DOMAIN course \ {"relevance_score"} : result[f] = course[f]

\* C1: on a corpus of n >= 1 courses, a search with a non-empty query and a
\* positive top_k returns exactly min(top_k, n) results, each a course of the
\* corpus with all its fields and a relevance_score.
C1_BoundedOutputSize ==
    (SearchEnded /\ last.query # "" /\ last.top_k > 0 /\ engine.courses # <<>>) =>
        /\ last.outcome = "returned"
        /\ Len(last.value) = Min(last.top_k, Len(engine.courses))
        /\ \A i \in 1..Len(last.value) :
              \E j \in 1..Len(engine.courses) :
                  IsSearchResultOf(last.value[i], engine.courses[j])

C1_Witness ==
    /\ SearchReturned /\ ValidArgs
    /\ Len(engine.courses) = 2
    /\ last.top_k = 1
    /\ Len(last.value) = 1

\* C2: the relevance scores of the returned list never increase from one
\* element to the next, and no course left out scores strictly higher than a
\* returned one.
C2_RankCorrectness ==
    SearchReturned =>
        /\ \A i \in 1..(Len(last.value) - 1) :
              last.value[i].relevance_score >= last.value[i + 1].relevance_score
        /\ \A j \in 1..Len(engine.courses) :
              (\A i \in 1..Len(last.indices) : last.indices[i] # j) =>
                  \A i \in 1..Len(last.value) :
                      last.scores[j] <= last.value[i].relevance_score

C2_Witness ==
    /\ SearchReturned /\ ValidArgs
    /\ Len(last.value) = 1
    /\ \E j \in 1..Len(engine.courses) :
          last.scores[j] < last.value[1].relevance_score

\* C3: courses with equal scores come in corpus order, lower index first,
\* in the returned list and at the top_k cut-off.
C3_TiesInCorpusOrder ==
    SearchReturned =>
        /\ \A i \in 1..(Len(last.indices) - 1) :
              last.scores[last.indices[i]] = last.scores[last.indices[i + 1]]
                  => last.indices[i] < last.indices[i + 1]
        /\ \A j \in 1..Len(engine.courses) :
              (\A i \in 1..Len(last.indices) : last.indices[i] # j) =>
                  \A i \in 1..Len(last.indices) :
                      last.scores[last.indices[i]] = last.scores[j] => last.indices[i] < j

\* C4: a search with top_k <= 0 or a query that is empty after trimming
\* fails with InvalidArgument before the query is encoded, and returns no list.
C4_InvalidArgumentRejected ==
    (SearchEnded /\ ~ValidArgs) =>
        /\ last.outcome = "raised"
        /\ last.error = "InvalidArgument"
        /\ ~last.encoded

\* C5: on an engine built from an empty catalog, a search with valid
\* arguments returns an empty list and raises nothing.
C5_EmptyCorpusReturnsEmpty ==
    (SearchEnded /\ ValidArgs /\ engine.courses = <<>>) =>
        /\ last.outcome = "returned"
        /\ last.value = <<>>

InApp == pc \in {"app_ui", "app_searched", "app_done"}

NoDataShown == "warning: run the scraper first" \in out

NoMatchesShown == "info: no courses found" \in out

\* C6: in a run of main the no-data warning and the no-matches message
\* exclude each other: with an empty catalog the run ends with the warning and
\* calls neither semantic_search nor filter_courses, and the no-matches message
\* appears only with a non-empty catalog, a built index and a search done.
C6_NoDataDistinctFromNoMatches ==
    /\ ~(NoDataShown /\ NoMatchesShown)
    /\ (engine.status = "ready" /\ engine.courses = <<>> /\ pc # "lib") =>
          /\ app.called = {}
          /\ pc = "app_done"
          /\ NoDataShown
    /\ NoDataShown => (engine.courses = <<>> /\ pc = "app_done")
    /\ NoMatchesShown =>
          /\ engine.courses # <<>>
          /\ engine.course_embeddings # None
          /\ Len(engine.course_embeddings[1]) = Len(engine.courses)
          /\ app.called = {"semantic_search", "filter_courses"}

C6_Witness ==
    /\ NoMatchesShown
    /\ app.results # <<>>
    /\ app.filtered_results = <<>>

\* the two predicates of the filter contract, on one course
SatisfiesFilters(course, selected_category, selected_level) ==
    /\ (selected_category # None /\ selected_category[1] \notin {"", "All Categories"})
          => Lower(course.category) = Lower(selected_category[1])
    /\ (selected_level # None /\ selected_level[1] \notin {"", "All Levels"})
          => Lower(course.level) = Lower(selected_level[1])

NoConstraint(selected_category, selected_level) ==
    /\ selected_category \in {None, Some("All Categories")}
    /\ selected_level \in {None, Some("All Levels")}

\* C8: filtering the output of filter_courses again with the same values
\* changes nothing, and with no constraint on either facet (the sentinel or
\* None) the output is the input, also when a course's level is "All Levels".
C8_FilterIdempotentSentinelIdentity ==
    FilterEnded =>
        /\ FilterCourses(last.value, last.selected_category, last.selected_level).value
              = last.value
        /\ NoConstraint(last.selected_category, last.selected_level)
              => last.value = last.results

C8_Witness ==
    /\ FilterEnded
    /\ last.selected_level = Some("All Levels")
    /\ last.selected_category \in {None, Some("All Categories")}
    /\ \E i, j \in 1..Len(last.results) :
          /\ last.results[i].level = "All Levels"
          /\ last.results[j].level = "Beginner"
    /\ last.value = last.results

\* C9: while an engine is in use, no call of semantic_search or
\* filter_courses, ended well or not, changes its courses or its embeddings;
\* no stored course gets a relevance_score and the list handed to
\* filter_courses is left as it was.
C9_IndexReadOnly ==
    [][(engine.status = "ready" /\ pc' # "start") =>
          /\ engine'.courses = engine.courses
          /\ engine'.course_embeddings = engine.course_embeddings
          /\ \A i \in 1..Len(engine'.courses) :
                "relevance_score" \notin DOMAIN engine'.courses[i]
          /\ last'.op = "filter_courses" => last'.results_after = last'.results]_vars

C9_Witness ==
    /\ SearchEnded
    /\ last.outcome = "raised"
    /\ engine.status = "ready"
    /\ Len(engine.courses) = 2
    /\ engine.course_embeddings # None

\* C10: an engine in use is aligned: either there are no courses and no
\* embeddings, or there is one embedding per course and the i-th is the
\* encoding of title, description and category of the i-th course joined by
\* blanks; a construction that fails leaves no engine to query.
C10_IndexAligned ==
    /\ engine.status = "ready" =>
          \/ engine.courses = <<>> /\ engine.course_embeddings = None
          \/ /\ engine.courses # <<>>
             /\ engine.course_embeddings # None
             /\ Len(engine.course_embeddings[1]) = Len(engine.courses)
             /\ \A i \in 1..Len(engine.courses) :
                   engine.course_embeddings[1][i] =
                       Encode(engine.model,
                              engine.courses[i].title \o " " \o
                              engine.courses[i].description \o " " \o
                              engine.courses[i].category)
    /\ engine.status = "failed" => (pc = "crashed" /\ last.op = "none" /\ app.called = {})
    /\ pc \in {"lib", "app_ui", "app_searched", "app_done"} => engine.status = "ready"

C10_Witness ==
    /\ engine.status = "ready"
    /\ Len(engine.courses) = 2
    /\ engine.courses[1] # engine.courses[2]
    /\ engine.course_embeddings # None
    /\ engine.course_embeddings[1][1] # engine.course_embeddings[1][2]

====
